---- MODULE Spec2Model ----
(***************************************************************************)
(* The live voice-chat client of src/unnamed/part_000 (the App component): *)
(* its refs and React state, the startSession / cleanupSession async       *)
(* functions and the transport callbacks onopen, onmessage, onerror and    *)
(* onclose.  One step of the model is one browser task (a callback, a      *)
(* click, a promise settling) together with the microtasks it triggers:    *)
(* an `await` of a promise that is still pending suspends the function, an *)
(* `await` of a settled promise continues within the same step.            *)
(***************************************************************************)
EXTENDS Integers, Sequences, FiniteSets, TLC

\* ---------------------------------------------------------------- bounds
MaxSessions  == 3   \* startSession calls in one behaviour
MaxStarts    == 2   \* startSession calls in one behaviour of Spec
MaxCleanups  == 3   \* cleanupSession calls in one behaviour
MaxMsgs      == 1   \* inbound messages in one behaviour of Spec
MaxClock     == 1   \* largest currentTime of an output context in Spec
MaxChunkMsgs == 3   \* inbound messages in one behaviour of SpecPlayback
MaxPlayClock == 1   \* largest currentTime of the output context in SpecPlayback
MaxTextMsgs  == 3   \* inbound messages in one behaviour of SpecText
MaxDur       == 1   \* largest duration of a decoded chunk
MaxText      == 3   \* largest length of a pending transcript buffer
MaxLogMsgs   == 2   \* inbound messages in one behaviour of SpecLog
MaxBlocks    == 3   \* microphone blocks captured in one behaviour of SpecCapture

Sessions  == 1..MaxSessions
Durations == 1..MaxDur
None      == "none"
NoError   == "null"
ConnectionFailed == "Connection failed. Please try again."
ApiKeyMissing    == "API Key not found"
MicDeniedMessage == "Permission denied"

\* Text is a sequence of characters; a delta is the text of one
\* inputTranscription / outputTranscription.
Chars  == {"a", "b", " "}
Deltas == {<<c>> : c \in Chars}
NoText == <<>>      \* a message without that transcription field

Max(a, b) == IF a >= b THEN a ELSE b

\* String.prototype.trim: the text without its leading and trailing blanks.
RECURSIVE TrimLeft(_)
TrimLeft(t) == IF t # <<>> /\ Head(t) = " " THEN TrimLeft(Tail(t)) ELSE t
RECURSIVE TrimRight(_)
TrimRight(t) ==
  IF t # <<>> /\ t[Len(t)] = " " THEN TrimRight(SubSeq(t, 1, Len(t) - 1)) ELSE t
trim(t) == TrimRight(TrimLeft(t))

\* --------------------------------------------------------------- state
VARIABLES
  entries,            \* useState: the transcript log
  currentInput,       \* useState: pending user text
  currentOutput,      \* useState: pending model text
  sessionState,       \* useState: [isActive, isConnecting, error]
  nextStartTimeRef,   \* useRef(0)
  audioContextsRef,   \* useRef: 0 (null) or the session whose contexts it holds
  sourcesRef,         \* useRef: the Set of live AudioBufferSourceNodes (chunk ids)
  streamRef,          \* useRef: 0 (null) or the session whose MediaStream it holds
  sessionPromiseRef,  \* useRef: 0 (null) or the session whose connect promise it holds
  ctx,                \* per session: the input and output AudioContext's state
  clock,              \* per session: the output context's currentTime
  stream,             \* per session: the MediaStream ("none", "live", "stopped")
  promise,            \* per session: the promise ai.live.connect returned
  transport,          \* per session: the remote transport
  startPc,            \* per session: where its startSession call stands
  cleanups,           \* the cleanupSession calls so far, each with where it stands
  decodes,            \* onmessage calls suspended at `await decodeAudioData`
  scheduled,          \* history: every source.start call [id, ctx, start, dur, at, cut]
  stopped,            \* the sources that received stop()
  recvUser,           \* history: user deltas carried by messages since the last turnComplete
  recvModel,          \* history: model deltas carried by messages since the last turnComplete
  entryTurn,          \* history: for each entry, the turnComplete event that added it
  turns,              \* history: turnComplete events handled
  msgs,               \* history: messages delivered
  apiKey,             \* process.env.API_KEY is set (fixed by the build)
  turnRecv,           \* history: for each turnComplete, the deltas messages carried for it
  interrupts,         \* history: how often lines 137-141 have run
  tornDown,           \* history: a cleanupSession call has run to line 57, with no startSession since
  audioOf,            \* history: for each message, its audio payload ("none", "ok", "bad")
  captured,           \* the number of onaudioprocess events so far; block b is the b-th
  thens,              \* per session: the blocks whose .then callback waits on its connect promise
  sent                \* history: every sendRealtimeInput call [block, to, waited], in call order

vars == <<entries, currentInput, currentOutput, sessionState, nextStartTimeRef,
          audioContextsRef, sourcesRef, streamRef, sessionPromiseRef, ctx, clock,
          stream, promise, transport, startPc, cleanups, decodes, scheduled,
          stopped, recvUser, recvModel, entryTurn, turns, msgs, apiKey,
          turnRecv, interrupts, tornDown, audioOf, captured, thens, sent>>

\* The state as one record, so that a handler is a function from state to
\* state and a handler that calls another is their composition.
Cur ==
  [entries |-> entries, currentInput |-> currentInput, currentOutput |-> currentOutput,
   sessionState |-> sessionState, nextStartTimeRef |-> nextStartTimeRef,
   audioContextsRef |-> audioContextsRef, sourcesRef |-> sourcesRef,
   streamRef |-> streamRef, sessionPromiseRef |-> sessionPromiseRef, ctx |-> ctx,
   clock |-> clock, stream |-> stream, promise |-> promise, transport |-> transport,
   startPc |-> startPc, cleanups |-> cleanups, decodes |-> decodes,
   scheduled |-> scheduled, stopped |-> stopped, recvUser |-> recvUser,
   recvModel |-> recvModel, entryTurn |-> entryTurn, turns |-> turns, msgs |-> msgs,
   apiKey |-> apiKey, turnRecv |-> turnRecv,
   interrupts |-> interrupts, tornDown |-> tornDown, audioOf |-> audioOf,
   captured |-> captured, thens |-> thens, sent |-> sent]

Apply(r) ==
  /\ entries' = r.entries
  /\ currentInput' = r.currentInput
  /\ currentOutput' = r.currentOutput
  /\ sessionState' = r.sessionState
  /\ nextStartTimeRef' = r.nextStartTimeRef
  /\ audioContextsRef' = r.audioContextsRef
  /\ sourcesRef' = r.sourcesRef
  /\ streamRef' = r.streamRef
  /\ sessionPromiseRef' = r.sessionPromiseRef
  /\ ctx' = r.ctx
  /\ clock' = r.clock
  /\ stream' = r.stream
  /\ promise' = r.promise
  /\ transport' = r.transport
  /\ startPc' = r.startPc
  /\ cleanups' = r.cleanups
  /\ decodes' = r.decodes
  /\ scheduled' = r.scheduled
  /\ stopped' = r.stopped
  /\ recvUser' = r.recvUser
  /\ recvModel' = r.recvModel
  /\ entryTurn' = r.entryTurn
  /\ turns' = r.turns
  /\ msgs' = r.msgs
  /\ apiKey' = r.apiKey
  /\ turnRecv' = r.turnRecv
  /\ interrupts' = r.interrupts
  /\ tornDown' = r.tornDown
  /\ audioOf' = r.audioOf
  /\ captured' = r.captured
  /\ thens' = r.thens
  /\ sent' = r.sent

Idle == [isActive |-> FALSE, isConnecting |-> FALSE, error |-> NoError]

Init ==
  /\ entries = <<>>
  /\ currentInput = <<>>
  /\ currentOutput = <<>>
  /\ sessionState = Idle
  /\ nextStartTimeRef = 0
  /\ audioContextsRef = 0
  /\ sourcesRef = {}
  /\ streamRef = 0
  /\ sessionPromiseRef = 0
  /\ ctx = [s \in Sessions |-> [input |-> None, output |-> None]]
  /\ clock = [s \in Sessions |-> 0]
  /\ stream = [s \in Sessions |-> None]
  /\ promise = [s \in Sessions |-> None]
  /\ transport = [s \in Sessions |-> None]
  /\ startPc = [s \in Sessions |-> None]
  /\ cleanups = <<>>
  /\ decodes = {}
  /\ scheduled = {}
  /\ stopped = {}
  /\ recvUser = <<>>
  /\ recvModel = <<>>
  /\ entryTurn = <<>>
  /\ turns = 0
  /\ msgs = 0
  /\ apiKey \in BOOLEAN
  /\ turnRecv = <<>>
  /\ interrupts = 0
  /\ tornDown = FALSE
  /\ audioOf = <<>>
  /\ captured = 0
  /\ thens = [s \in Sessions |-> <<>>]
  /\ sent = <<>>

\* ------------------------------------------------------- cleanupSession
\* A cleanupSession call k is cleanups[k] = [pc, on, gen, again, mid, over]: pc is
\* "awaitSession", "awaitInputClose" or "awaitOutputClose" while it is
\* suspended at the await of line 35, 46 or 47 (on: the session whose promise
\* or context it awaits), "done" once line 57 has run and "failed" when it
\* ended by an exception.  History: gen is the number of startSession calls
\* made before it, again says that the call before it had ended and no
\* startSession was called in between, mid that the latest startSession call
\* was suspended at line 75 or its transport was still opening, over is the
\* set of earlier calls that were suspended at an await when it was made.
Suspended == {"awaitSession", "awaitInputClose", "awaitOutputClose"}

Started(r) == Cardinality({s \in Sessions : r.startPc[s] # None})

setPc(r, k, pc, on) == [r EXCEPT !.cleanups[k].pc = pc, !.cleanups[k].on = on]

\* AudioContext.close(): rejects at once on a closed context, otherwise the
\* context is closing until the browser has released it.
closeCtx(r, c, which) ==
  IF which = "input"
    THEN [r EXCEPT !.ctx[c].input = "closing"]
    ELSE [r EXCEPT !.ctx[c].output = "closing"]

\* Lines 51-57.
cleanupReset(r, k) ==
  setPc([r EXCEPT !.stopped = @ \cup r.sourcesRef,
                  !.sourcesRef = {},
                  !.nextStartTimeRef = 0,
                  !.sessionState = Idle,
                  !.currentInput = <<>>,
                  !.currentOutput = <<>>,
                  !.tornDown = TRUE],
        k, "done", 0)

\* Line 47, then 48 once the close has settled.
cleanupCloseOutput(r, k) ==
  LET c == r.audioContextsRef IN
  IF c = 0 THEN setPc(r, k, "failed", 0)                      \* null.output: TypeError
  ELSE IF r.ctx[c].output = "closed" THEN setPc(r, k, "failed", c)  \* close() rejects
  ELSE setPc(closeCtx(r, c, "output"), k, "awaitOutputClose", c)

cleanupAfterOutput(r, k) ==
  cleanupReset([r EXCEPT !.audioContextsRef = 0], k)

\* Lines 45-46.
cleanupContexts(r, k) ==
  LET c == r.audioContextsRef IN
  IF c = 0 THEN cleanupReset(r, k)
  ELSE IF r.ctx[c].input = "closed" THEN setPc(r, k, "failed", c)   \* close() rejects
  ELSE setPc(closeCtx(r, c, "input"), k, "awaitInputClose", c)

\* Lines 40-43.
cleanupStream(r, k) ==
  cleanupContexts(
    IF r.streamRef # 0
      THEN [r EXCEPT !.stream[r.streamRef] = "stopped", !.streamRef = 0]
      ELSE r,
    k)

\* Lines 36-37: session.close() on the session the awaited promise gave.
cleanupCloseSession(r, k) ==
  LET s == r.cleanups[k].on IN
  cleanupStream(
    [r EXCEPT !.transport[s] = IF @ = "open" THEN "closing" ELSE @,
              !.sessionPromiseRef = 0],
    k)

\* Line 35 once the awaited promise has settled.
cleanupAfterSession(r, k) ==
  IF r.promise[r.cleanups[k].on] = "rejected"
    THEN setPc(r, k, "failed", r.cleanups[k].on)
    ELSE cleanupCloseSession(r, k)

\* The call: lines 33-35.
cleanupSession(r) ==
  LET k  == Len(r.cleanups) + 1
      r0 == [r EXCEPT !.cleanups = Append(@,
               [pc |-> "awaitSession", on |-> r.sessionPromiseRef,
                gen |-> Started(r),
                over |-> {j \in DOMAIN r.cleanups : r.cleanups[j].pc \in Suspended},
                mid |-> /\ Started(r) > 0
                        /\ \/ r.startPc[Started(r)] = "awaitMic"
                           \/ r.transport[Started(r)] = "opening",
                again |-> /\ k > 1
                          /\ r.cleanups[k - 1].pc \in {"done", "failed"}
                          /\ r.cleanups[k - 1].gen = Started(r)])]
  IN IF r.sessionPromiseRef = 0 THEN cleanupStream(r0, k)
     ELSE IF r.promise[r.sessionPromiseRef] = "pending" THEN r0
     ELSE cleanupAfterSession(r0, k)

\* The continuation of call k after the await it is suspended at.
cleanupResume(r, k) ==
  CASE r.cleanups[k].pc = "awaitSession"     -> cleanupAfterSession(r, k)
    [] r.cleanups[k].pc = "awaitInputClose"  -> cleanupCloseOutput(r, k)
    [] r.cleanups[k].pc = "awaitOutputClose" -> cleanupAfterOutput(r, k)
    [] OTHER -> r

\* When a promise settles, the calls awaiting it continue in call order.
RECURSIVE resumeAwaiters(_, _, _, _)
resumeAwaiters(r, pc, on, k) ==
  IF k > Len(r.cleanups) THEN r
  ELSE resumeAwaiters(
         IF r.cleanups[k].pc = pc /\ r.cleanups[k].on = on
           THEN cleanupResume(r, k) ELSE r,
         pc, on, k + 1)

\* --------------------------------------------------------- startSession
\* Lines 165-169: the catch block.
startSessionCatch(r, message) ==
  cleanupSession(
    [r EXCEPT !.sessionState =
       [isActive |-> FALSE, isConnecting |-> FALSE, error |-> message]])

\* Lines 61-75: up to the await of getUserMedia.
startSession(r, s) ==
  LET r1 == [r EXCEPT !.sessionState = [@ EXCEPT !.isConnecting = TRUE,
                                                 !.error = NoError]]
  IN IF ~r.apiKey
       THEN startSessionCatch([r1 EXCEPT !.startPc[s] = "noKey", !.tornDown = FALSE],
                              ApiKeyMissing)
       ELSE [r1 EXCEPT !.ctx[s] = [input |-> "running", output |-> "running"],
                       !.audioContextsRef = s,
                       !.startPc[s] = "awaitMic",
                       !.tornDown = FALSE]

\* Lines 76-163: getUserMedia resolved; ai.live.connect is called, not awaited.
startSessionConnect(r, s) ==
  [r EXCEPT !.stream[s] = "live",
            !.streamRef = s,
            !.transport[s] = "opening",
            !.promise[s] = "pending",
            !.sessionPromiseRef = s,
            !.startPc[s] = "done"]

\* Lines 81-97: onopen.
onopen(r) ==
  [r EXCEPT !.sessionState =
     [isActive |-> TRUE, isConnecting |-> FALSE, error |-> NoError]]

\* Lines 87-93: onaudioprocess with the next block.  sessionPromiseRef is
\* read when the event fires; the .then callback (line 91) runs at once on a
\* resolved promise, waits on a pending one and never runs on a rejected one.
\* Here the callback puts its block in front of the blocks already sent.
onaudioprocess_jumpsQueue(r) ==
  LET b  == r.captured + 1
      p  == r.sessionPromiseRef
      r1 == [r EXCEPT !.captured = b]
  IN IF p = 0 THEN r1
     ELSE IF r.promise[p] = "resolved"
       THEN [r1 EXCEPT !.sent = <<[block |-> b, to |-> p, waited |-> FALSE]>> \o @]
     ELSE IF r.promise[p] = "pending"
       THEN [r1 EXCEPT !.thens[p] = Append(@, b)]
     ELSE r1

\* Lines 87-93: onaudioprocess with the next block.
onaudioprocess(r) ==
  LET b  == r.captured + 1
      p  == r.sessionPromiseRef
      r1 == [r EXCEPT !.captured = b]
  IN IF p = 0 THEN r1
     ELSE IF r.promise[p] = "resolved"
       THEN [r1 EXCEPT !.sent = Append(@, [block |-> b, to |-> p, waited |-> FALSE])]
     ELSE IF r.promise[p] = "pending"
       THEN [r1 EXCEPT !.thens[p] = Append(@, b)]
     ELSE r1

\* Line 91 for the callbacks waiting on the promise of session s once it has
\* resolved: they run in the order they were registered.
RECURSIVE sendWaiting(_, _)
sendWaiting(r, s) ==
  IF r.thens[s] = <<>> THEN r
  ELSE sendWaiting([r EXCEPT !.sent = Append(@, [block |-> Head(r.thens[s]), to |-> s,
                                                 waited |-> TRUE]),
                             !.thens[s] = Tail(@)],
                   s)

\* Lines 143-147: onerror.
onerror(r) ==
  cleanupSession(
    [r EXCEPT !.sessionState = [@ EXCEPT !.error = ConnectionFailed]])

\* Lines 148-150: onclose.
onclose(r) == cleanupSession(r)

\* ------------------------------------------------------------ onmessage
\* A LiveServerMessage: the fields of serverContent the handler reads.
\* audio is "none", "ok" (a payload that decodes to dur seconds) or "bad"
\* (a payload decode or decodeAudioData throws on).
Messages ==
  { m \in [inT : Deltas \cup {NoText}, outT : Deltas \cup {NoText}, tc : BOOLEAN,
           audio : {"none", "ok", "bad"}, dur : 0..MaxDur, intr : BOOLEAN] :
      (m.audio = "ok") = (m.dur \in Durations) }

\* Lines 25-30 without the guard of line 24.
addEntry_keepsBlank(r, sender, text) ==
  [r EXCEPT !.entries = Append(@, [id |-> Len(@) + 1, sender |-> sender,
                                   text |-> text]),
            !.entryTurn = Append(@, r.turns)]

\* Lines 23-31.
addEntry(r, sender, text) ==
  IF trim(text) = <<>> THEN r
  ELSE [r EXCEPT !.entries = Append(@, [id |-> Len(@) + 1, sender |-> sender,
                                        text |-> text]),
                 !.entryTurn = Append(@, r.turns)]

\* Lines 100-106.
onmessageTranscription(r, m) ==
  IF m.inT # NoText THEN [r EXCEPT !.currentInput = @ \o m.inT]
  ELSE IF m.outT # NoText THEN [r EXCEPT !.currentOutput = @ \o m.outT]
  ELSE r

\* Lines 109-112 and 113-116: the two updaters of a turnComplete.
flushInput(r) ==
  [(IF r.currentInput # <<>> THEN addEntry(r, "user", r.currentInput) ELSE r)
     EXCEPT !.currentInput = <<>>]

flushOutput(r) ==
  [(IF r.currentOutput # <<>> THEN addEntry(r, "model", r.currentOutput) ELSE r)
     EXCEPT !.currentOutput = <<>>]

\* Lines 108-117 with the two updaters in the other order.
onmessageTurnComplete_modelFirst(r, m) ==
  IF m.tc
    THEN [flushInput(flushOutput([r EXCEPT !.turns = @ + 1]))
            EXCEPT !.turnRecv = Append(@, [user |-> r.recvUser, model |-> r.recvModel]),
                   !.recvUser = <<>>, !.recvModel = <<>>]
    ELSE r

\* Lines 108-117.
onmessageTurnComplete(r, m) ==
  IF m.tc
    THEN [flushOutput(flushInput([r EXCEPT !.turns = @ + 1]))
            EXCEPT !.turnRecv = Append(@, [user |-> r.recvUser, model |-> r.recvModel]),
                   !.recvUser = <<>>, !.recvModel = <<>>]
    ELSE r

\* History: the decodes in flight whose message arrived before message id
\* are marked as cut by the interruption message id carried.
cutEarlier(ds, id) == {IF d.id < id THEN [d EXCEPT !.cut = TRUE] ELSE d : d \in ds}

\* Lines 137-141 without line 140: the cursor is not reset.
onmessageInterrupted_keepsCursor(r, id, intr) ==
  IF intr
    THEN [r EXCEPT !.stopped = @ \cup r.sourcesRef,
                   !.sourcesRef = {},
                   !.interrupts = @ + 1,
                   !.decodes = cutEarlier(@, id)]
    ELSE r

\* Lines 137-141 for message id.
onmessageInterrupted(r, id, intr) ==
  IF intr
    THEN [r EXCEPT !.stopped = @ \cup r.sourcesRef,
                   !.sourcesRef = {},
                   !.nextStartTimeRef = 0,
                   !.interrupts = @ + 1,
                   !.decodes = cutEarlier(@, id)]
    ELSE r

\* Line 123, with the clock of the output context line 122 read.
scheduleFloor(r, c) == Max(r.nextStartTimeRef, r.clock[c])

\* Lines 119-125 with a payload that does not decode going on as a chunk of
\* duration 1.
onmessageAudio_keepsCorrupt(r, m) ==
  IF m.audio # "none" /\ r.audioContextsRef # 0
    THEN LET c  == r.audioContextsRef
             r1 == [r EXCEPT !.nextStartTimeRef = scheduleFloor(r, c)]
         IN [r1 EXCEPT !.decodes = @ \cup
               {[id |-> r.msgs, ctx |-> c,
                 dur |-> IF m.audio = "bad" THEN 1 ELSE m.dur, intr |-> m.intr,
                 cut |-> FALSE]}]
    ELSE onmessageInterrupted(r, r.msgs, m.intr)

\* Lines 119-125: up to the await of decodeAudioData; a payload that does not
\* decode throws out of the handler, an absent one (or no contexts) goes on
\* to line 137.
onmessageAudio(r, m) ==
  IF m.audio # "none" /\ r.audioContextsRef # 0
    THEN LET c  == r.audioContextsRef
             r1 == [r EXCEPT !.nextStartTimeRef = scheduleFloor(r, c)]
         IN IF m.audio = "bad" THEN r1
            ELSE [r1 EXCEPT !.decodes = @ \cup {[id |-> r.msgs, ctx |-> c,
                                                 dur |-> m.dur, intr |-> m.intr,
                                                 cut |-> FALSE]}]
    ELSE onmessageInterrupted(r, r.msgs, m.intr)

\* Lines 98-141 up to the first suspension.
onmessage(r, m) ==
  onmessageAudio(
    onmessageTurnComplete(
      onmessageTranscription(
        [r EXCEPT !.msgs = @ + 1,
                  !.audioOf = Append(@, m.audio),
                  !.recvUser = IF m.inT # NoText THEN Append(@, m.inT) ELSE @,
                  !.recvModel = IF m.outT # NoText THEN Append(@, m.outT) ELSE @],
        m),
      m),
    m)

\* Lines 126-134, then 137-141: the handler after decodeAudioData resolved.
\* Nothing here reads audioContextsRef or the context's state again: the
\* source is created on, and started against, the context line 122 read.
onmessageDecoded(r, d) ==
  onmessageInterrupted(
    [r EXCEPT !.scheduled = @ \cup {[id |-> d.id, ctx |-> d.ctx,
                                     start |-> r.nextStartTimeRef, dur |-> d.dur,
                                     at |-> r.clock[d.ctx], cut |-> d.cut]},
              !.nextStartTimeRef = @ + d.dur,
              !.sourcesRef = @ \cup {d.id},
              !.decodes = @ \ {d}],
    d.id, d.intr)

\* Lines 129-131: the 'ended' listener of source id.
onended(r, id) == [r EXCEPT !.sourcesRef = @ \ {id}]

CanCleanup == Len(cleanups) < MaxCleanups


\* -------------------------------------------------------------- actions
NextSession(s) == startPc[s] = None /\ \A q \in Sessions : q < s => startPc[q] # None

\* Lines 172-178 with the button of lines 220-222, disabled while connecting.
ToggleStart ==
  /\ ~sessionState.isConnecting
  /\ ~sessionState.isActive
  /\ \E s \in Sessions :
       /\ NextSession(s)
       /\ apiKey \/ CanCleanup
       /\ Apply(startSession(Cur, s))

ToggleStop ==
  /\ ~sessionState.isConnecting
  /\ sessionState.isActive
  /\ CanCleanup
  /\ Apply(cleanupSession(Cur))

\* getUserMedia resolves: startSession continues at line 76.
MicGranted(s) ==
  /\ startPc[s] = "awaitMic"
  /\ Apply(startSessionConnect(Cur, s))

\* getUserMedia rejects: startSession continues in its catch block.
MicDenied(s) ==
  /\ startPc[s] = "awaitMic"
  /\ CanCleanup
  /\ Apply(startSessionCatch([Cur EXCEPT !.startPc[s] = "micDenied"],
                             MicDeniedMessage))

\* The transport opens: onopen is called, then the connect promise resolves
\* and the cleanupSession calls awaiting it continue.
TransportOpens(s) ==
  /\ transport[s] = "opening"
  /\ Apply(resumeAwaiters(
             sendWaiting([onopen(Cur) EXCEPT !.transport[s] = "open",
                                             !.promise[s] = "resolved"], s),
             "awaitSession", s, 1))

\* Opening the transport fails: the connect promise rejects.
TransportFails(s) ==
  /\ transport[s] = "opening"
  /\ Apply(resumeAwaiters(
             [Cur EXCEPT !.transport[s] = "failed",
                         !.promise[s] = "rejected",
                         !.thens[s] = <<>>],
             "awaitSession", s, 1))

\* The transport of session s delivers a message.
OnMessage(s, m) ==
  /\ transport[s] = "open"
  /\ LET r == onmessage(Cur, m)
     IN /\ Len(r.currentInput) <= MaxText
        /\ Len(r.currentOutput) <= MaxText
        /\ Apply(r)

\* decodeAudioData (services/audioUtils, not among the sources): the promise
\* of a call settles some time after the call, whatever the other calls do.
decodeAudioDataSettles(d) == d \in decodes

\* Line 125: the await of decodeAudioData returns in one of the suspended
\* onmessage calls.
DecodeDone(d) ==
  /\ decodeAudioDataSettles(d)
  /\ Apply(onmessageDecoded(Cur, d))

\* The transport reports an error; onclose follows.
OnError(s) ==
  /\ transport[s] \in {"open", "failed"}
  /\ CanCleanup
  /\ Apply(onerror([Cur EXCEPT !.transport[s] = "closing"]))

\* The transport closes: by the server, after an error or after session.close().
OnClose(s) ==
  /\ transport[s] \in {"open", "failed", "closing"}
  /\ CanCleanup
  /\ Apply(onclose([Cur EXCEPT !.transport[s] = "closed"]))

\* The script processor onopen of session s created (lines 85-96) delivers a
\* block: it does so while its input context has not been closed.
Capture(s) ==
  /\ promise[s] = "resolved"
  /\ ctx[s].input \in {"running", "closing"}
  /\ Apply(onaudioprocess(Cur))

\* An AudioContext.close() completes and the calls awaiting it continue.
InputClosed(c) ==
  /\ ctx[c].input = "closing"
  /\ Apply(resumeAwaiters([Cur EXCEPT !.ctx[c].input = "closed"],
                          "awaitInputClose", c, 1))

OutputClosed(c) ==
  /\ ctx[c].output = "closing"
  /\ Apply(resumeAwaiters([Cur EXCEPT !.ctx[c].output = "closed"],
                          "awaitOutputClose", c, 1))

\* The output context's clock advances.
Tick(c) ==
  /\ ctx[c].output \in {"running", "closing"}
  /\ Apply([Cur EXCEPT !.clock[c] = @ + 1])

\* A source played to its end: its 'ended' listener runs.
Ended(x) ==
  /\ x.id \in sourcesRef
  /\ x.id \notin stopped
  /\ ctx[x.ctx].output = "running"
  /\ clock[x.ctx] >= x.start + x.dur
  /\ Apply(onended(Cur, x.id))

Next ==
  \/ Started(Cur) < MaxStarts /\ ToggleStart
  \/ ToggleStop
  \/ \E s \in Sessions : MicGranted(s)
  \/ \E s \in Sessions : MicDenied(s)
  \/ \E s \in Sessions : TransportOpens(s)
  \/ \E s \in Sessions : TransportFails(s)
  \/ msgs < MaxMsgs /\ \E s \in Sessions : \E m \in Messages : OnMessage(s, m)
  \/ \E d \in decodes : DecodeDone(d)
  \/ \E s \in Sessions : OnError(s)
  \/ \E s \in Sessions : OnClose(s)
  \/ \E c \in Sessions : InputClosed(c)
  \/ \E c \in Sessions : OutputClosed(c)
  \/ \E c \in Sessions : clock[c] < MaxClock /\ Tick(c)
  \/ \E x \in scheduled : Ended(x)

Spec == Init /\ [][Next]_vars

\* ------------------------------------------------- the playback scheduler
\* Session 1 once it is active: the state after ToggleStart, MicGranted(1)
\* and TransportOpens(1).
InitActive ==
  /\ entries = <<>>
  /\ currentInput = <<>>
  /\ currentOutput = <<>>
  /\ sessionState = [isActive |-> TRUE, isConnecting |-> FALSE, error |-> NoError]
  /\ nextStartTimeRef = 0
  /\ audioContextsRef = 1
  /\ sourcesRef = {}
  /\ streamRef = 1
  /\ sessionPromiseRef = 1
  /\ ctx = [s \in Sessions |->
             IF s = 1 THEN [input |-> "running", output |-> "running"]
                      ELSE [input |-> None, output |-> None]]
  /\ clock = [s \in Sessions |-> 0]
  /\ stream = [s \in Sessions |-> IF s = 1 THEN "live" ELSE None]
  /\ promise = [s \in Sessions |-> IF s = 1 THEN "resolved" ELSE None]
  /\ transport = [s \in Sessions |-> IF s = 1 THEN "open" ELSE None]
  /\ startPc = [s \in Sessions |-> IF s = 1 THEN "done" ELSE None]
  /\ cleanups = <<>>
  /\ decodes = {}
  /\ scheduled = {}
  /\ stopped = {}
  /\ recvUser = <<>>
  /\ recvModel = <<>>
  /\ entryTurn = <<>>
  /\ turns = 0
  /\ msgs = 0
  /\ apiKey = TRUE
  /\ turnRecv = <<>>
  /\ interrupts = 0
  /\ tornDown = FALSE
  /\ audioOf = <<>>
  /\ captured = 0
  /\ thens = [s \in Sessions |-> <<>>]
  /\ sent = <<>>

\* Messages that carry audio or the interrupted flag only.
AudioMessages == {m \in Messages : m.inT = NoText /\ m.outT = NoText /\ ~m.tc}

\* The active session receiving audio chunks and interruptions while the
\* playback clock advances; no teardown.
NextPlayback ==
  \/ msgs < MaxChunkMsgs /\ \E m \in AudioMessages : OnMessage(1, m)
  \/ \E d \in decodes : DecodeDone(d)
  \/ clock[1] < MaxPlayClock /\ Tick(1)
  \/ \E x \in scheduled : Ended(x)

SpecPlayback == InitActive /\ [][NextPlayback]_vars

\* ---------------------------------------------------- the turn aggregator
\* Messages that carry transcription deltas or turnComplete only.
TextMessages == {m \in Messages : m.audio = "none" /\ ~m.intr}

NextText == msgs < MaxTextMsgs /\ \E m \in TextMessages : OnMessage(1, m)

SpecText == InitActive /\ [][NextText]_vars

\* ------------------------------------------------------ outbound audio
\* Sessions starting, capturing microphone blocks and being torn down; no
\* inbound messages.
NextCapture ==
  \/ ToggleStart
  \/ ToggleStop
  \/ \E s \in Sessions : MicGranted(s)
  \/ \E s \in Sessions : MicDenied(s)
  \/ \E s \in Sessions : TransportOpens(s)
  \/ \E s \in Sessions : TransportFails(s)
  \/ captured < MaxBlocks /\ \E s \in Sessions : Capture(s)
  \/ \E s \in Sessions : OnError(s)
  \/ \E s \in Sessions : OnClose(s)
  \/ \E c \in Sessions : InputClosed(c)
  \/ \E c \in Sessions : OutputClosed(c)

SpecCapture == Init /\ [][NextCapture]_vars

\* ------------------------------------------------- starts that settle
\* Sessions starting and being torn down, with every pending operation of
\* the platform settling in the end: getUserMedia resolves or rejects, the
\* transport opens or fails to, a context that is closing gets closed.  The
\* user's clicks and the transport's error and close events may never come.
NextLifecycle ==
  \/ Started(Cur) < MaxStarts /\ ToggleStart
  \/ ToggleStop
  \/ \E s \in Sessions : MicGranted(s)
  \/ \E s \in Sessions : MicDenied(s)
  \/ \E s \in Sessions : TransportOpens(s)
  \/ \E s \in Sessions : TransportFails(s)
  \/ \E s \in Sessions : OnError(s)
  \/ \E s \in Sessions : OnClose(s)
  \/ \E c \in Sessions : InputClosed(c)
  \/ \E c \in Sessions : OutputClosed(c)

PendingSettle ==
  /\ \A s \in Sessions : WF_vars(MicGranted(s) \/ MicDenied(s))
  /\ \A s \in Sessions : WF_vars(TransportOpens(s) \/ TransportFails(s))
  /\ \A c \in Sessions : WF_vars(InputClosed(c))
  /\ \A c \in Sessions : WF_vars(OutputClosed(c))

SpecLifecycle == Init /\ [][NextLifecycle]_vars /\ PendingSettle

\* --------------------------------------------------- the transcript log
\* The active session receiving transcription messages until it is torn down
\* by the button, by onerror or by onclose.
NextLog ==
  \/ msgs < MaxLogMsgs /\ \E m \in TextMessages : OnMessage(1, m)
  \/ ToggleStop
  \/ OnError(1)
  \/ OnClose(1)
  \/ InputClosed(1)
  \/ OutputClosed(1)

SpecLog == InitActive /\ [][NextLog]_vars


\* ================================================================ claims
InOrder(x, y) == x.id < y.id     \* x's message arrived before y's

\* C1: with no interruption (and no teardown: SpecPlayback has none), the
\* chunks are scheduled in arrival order without overlap: nextStartTime never
\* decreases, and a chunk starts no earlier than the end (start + duration) of
\* every chunk that arrived before it.
C1_NoOverlapInArrivalOrder ==
  /\ [](interrupts = 0 =>
          \A x, y \in scheduled : InOrder(x, y) => y.start >= x.start + x.dur)
  /\ [][interrupts' = 0 => nextStartTimeRef' >= nextStartTimeRef]_vars

\* C2: no chunk is started in the past: the start time given to source.start
\* is at least the output context's currentTime at that call.
C2_NeverScheduledInThePast ==
  \A x \in scheduled : x.start >= x.at

\* C3: whenever the handler of an interrupted event runs (lines 137-141, in
\* the message's own task or after its audio was decoded), every chunk that
\* was live, the message's own chunk included, has received stop, liveChunks
\* is empty and nextStartTime is 0, whether or not liveChunks was empty before.
C3_InterruptClears ==
  [][interrupts' # interrupts =>
       /\ sourcesRef' = {}
       /\ nextStartTimeRef' = 0
       /\ sourcesRef \subseteq stopped'
       /\ \A x \in scheduled' \ scheduled : x.id \in stopped']_vars

\* Two chunks (messages 1 and 2) were enqueued and stopped by an interruption,
\* and a second interruption ran on the empty set.
C3_Witness ==
  /\ msgs = 3
  /\ interrupts = 2
  /\ {x.id : x \in scheduled} = {1, 2}
  /\ stopped = {1, 2}
  /\ sourcesRef = {}
  /\ nextStartTimeRef = 0
  /\ decodes = {}

\* C4: once a teardown has completed, and until startSession is called again,
\* liveChunks is empty and nextStartTime is 0: a chunk whose decode was in
\* flight during the teardown is not scheduled when the decode finishes.
C4_NothingScheduledAfterTeardown ==
  tornDown => sourcesRef = {} /\ nextStartTimeRef = 0

RECURSIVE Flatten(_)
Flatten(ds) == IF ds = <<>> THEN <<>> ELSE Head(ds) \o Flatten(Tail(ds))

EntriesOf(t, sender) ==
  {i \in DOMAIN entries : entryTurn[i] = t /\ entries[i].sender = sender}

TurnYields(t, sender, text) ==
  /\ text = <<>> => EntriesOf(t, sender) = {}
  /\ trim(text) # <<>> =>
       /\ Cardinality(EntriesOf(t, sender)) = 1
       /\ \A i \in EntriesOf(t, sender) : entries[i].text = text

\* C5: a turnComplete yields, for each channel, exactly one entry whose text
\* is the concatenation in arrival order of every delta a message carried for
\* that channel since the previous turnComplete (no entry when there was
\* none), and between turnCompletes each pending buffer holds exactly the
\* deltas that have arrived: none is lost, and the buffers are empty after a
\* turnComplete.
C5_TurnCarriesEveryDelta ==
  /\ \A t \in 1..turns :
       /\ TurnYields(t, "user", Flatten(turnRecv[t].user))
       /\ TurnYields(t, "model", Flatten(turnRecv[t].model))
  /\ currentInput = Flatten(recvUser)
  /\ currentOutput = Flatten(recvModel)

\* C6: in the log the user entry of a turn precedes the model entry of that
\* turn, and a turnComplete that finds text in both pending buffers appends
\* the user entry and then the model entry.
C6_UserBeforeModel ==
  /\ [](\A i, j \in DOMAIN entries :
          i < j /\ entryTurn[i] = entryTurn[j] =>
            entries[i].sender = "user" /\ entries[j].sender = "model")
  /\ [][turns' = turns + 1 /\ trim(currentInput) # <<>> /\ trim(currentOutput) # <<>> =>
          /\ Len(entries') = Len(entries) + 2
          /\ SubSeq(entries', 1, Len(entries)) = entries
          /\ entries'[Len(entries) + 1].sender = "user"
          /\ entries'[Len(entries) + 2].sender = "model"]_vars

\* Both channels had text at a turnComplete and the log holds the turn's two
\* entries.
C6_Witness ==
  \E i, j \in DOMAIN entries :
    /\ i < j
    /\ entryTurn[i] = entryTurn[j]
    /\ entries[i].text # entries[j].text

\* Nothing is pending: no start or teardown is suspended and no transport
\* event or decode is outstanding.
Settled ==
  /\ \A k \in DOMAIN cleanups : cleanups[k].pc \in {"done", "failed"}
  /\ \A s \in Sessions :
       /\ startPc[s] # "awaitMic"
       /\ transport[s] \notin {"opening", "failed", "closing"}
       /\ ctx[s].input # "closing"
       /\ ctx[s].output # "closing"
  /\ decodes = {}

Released(s) ==
  /\ streamRef = 0 /\ audioContextsRef = 0 /\ sessionPromiseRef = 0
  /\ stream[s] # "live"
  /\ ctx[s].input \notin {"running", "closing"}
  /\ ctx[s].output \notin {"running", "closing"}
  /\ transport[s] \notin {"opening", "open"}

\* C7: when the latest start failed (microphone denied, or the transport
\* failed to open) and everything has settled, SessionState is in the error
\* phase with a message and nothing that start acquired is still held.
C7_FailedStartEndsInError ==
  \A s \in Sessions :
    /\ s = Started(Cur)
    /\ startPc[s] = "micDenied" \/ promise[s] = "rejected"
    /\ Settled
    => /\ ~sessionState.isActive
       /\ ~sessionState.isConnecting
       /\ sessionState.error # NoError
       /\ Released(s)

\* C8: an error message in SessionState is not removed before the next
\* startSession call.
C8_ErrorPersistsUntilStart ==
  [][sessionState.error # NoError /\ Started(Cur)' = Started(Cur) =>
       sessionState'.error # NoError]_vars

NothingHeld ==
  /\ sessionPromiseRef = 0 /\ streamRef = 0 /\ audioContextsRef = 0
  /\ ~sessionState.isActive /\ ~sessionState.isConnecting

AllClear ==
  /\ sessionState = Idle
  /\ currentInput = <<>> /\ currentOutput = <<>>
  /\ sourcesRef = {} /\ nextStartTimeRef = 0
  /\ sessionPromiseRef = 0 /\ streamRef = 0 /\ audioContextsRef = 0

program == <<entries, currentInput, currentOutput, sessionState, nextStartTimeRef,
             audioContextsRef, sourcesRef, streamRef, sessionPromiseRef>>

\* C9: a teardown called right after another one ended (no start in between),
\* or while nothing is held, raises no error, as the one before it did not,
\* and leaves SessionState idle, both buffers and liveChunks empty,
\* nextStartTime 0 and nothing held; called after another, it changes nothing.
C9_TeardownTwice ==
  [][Len(cleanups') = Len(cleanups) + 1 =>
       LET k == Len(cleanups') IN
       /\ cleanups'[k].again \/ NothingHeld =>
            cleanups'[k].pc = "done" /\ AllClear'
       /\ cleanups'[k].again =>
            cleanups[k - 1].pc = "done" /\ program' = program]_vars

\* C10: a teardown that fails at one step has still released the microphone
\* stream, cleared liveChunks and both pending buffers, reset nextStartTime
\* and left active/connecting.
C10_TeardownCompletesDespiteFailure ==
  [][\A k \in DOMAIN cleanups' :
       /\ cleanups'[k].pc = "failed"
       /\ k \in DOMAIN cleanups => cleanups[k].pc # "failed"
       => /\ streamRef' = 0
          /\ sourcesRef' = {}
          /\ nextStartTimeRef' = 0
          /\ currentInput' = <<>> /\ currentOutput' = <<>>
          /\ ~sessionState'.isActive /\ ~sessionState'.isConnecting]_vars

\* C11: the log is append-only: every entry has non-blank text, a step leaves
\* the entries it found in place and unchanged, entries are added only by a
\* step that handles a turnComplete, and a step of a teardown (its call or one
\* of its continuations) adds none, whatever partial text is pending.
C11_LogAppendOnly ==
  /\ [](\A i \in DOMAIN entries : trim(entries[i].text) # <<>>)
  /\ [][/\ Len(entries') >= Len(entries)
        /\ SubSeq(entries', 1, Len(entries)) = entries
        /\ entries' # entries => turns' = turns + 1
        /\ cleanups' # cleanups => entries' = entries]_vars

\* The log holds an entry, and a teardown ran to its end while a user delta
\* received after the last turnComplete was pending: the delta is gone and
\* the log holds no entry for it.
C11_Witness ==
  /\ entries # <<>>
  /\ tornDown
  /\ recvUser # <<>>
  /\ trim(Flatten(recvUser)) # <<>>
  /\ currentInput = <<>>
  /\ \A i \in DOMAIN entries : entryTurn[i] <= turns

Ids(xs) == {x.id : x \in xs}

\* C12: a message whose audio payload does not decode leaves liveChunks,
\* SessionState, the transport and the teardown calls as they were; its chunk
\* is never decoded, scheduled or live; and every chunk with a sound payload,
\* before or after it, is still being decoded or has been scheduled.
C12_CorruptChunkDropped ==
  /\ [](\A i \in DOMAIN audioOf :
          /\ audioOf[i] = "bad" => i \notin Ids(decodes) \cup Ids(scheduled) \cup sourcesRef
          /\ audioOf[i] = "ok" => i \in Ids(decodes) \cup Ids(scheduled))
  /\ [][Len(audioOf') > Len(audioOf) /\ audioOf'[Len(audioOf')] = "bad" =>
          /\ sourcesRef' = sourcesRef
          /\ sessionState' = sessionState
          /\ cleanups' = cleanups
          /\ transport' = transport
          /\ decodes' = decodes]_vars

\* A corrupt payload arrived first, and the chunk of the message after it was
\* decoded and scheduled.
C12_Witness ==
  /\ Len(audioOf) >= 2
  /\ audioOf[1] = "bad"
  /\ audioOf[2] = "ok"
  /\ 2 \in Ids(scheduled)
  /\ 2 \in sourcesRef
  /\ sessionState.isActive

\* C13: when a teardown was called while the latest start was suspended at
\* getUserMedia or its transport was opening, and that start has since got its
\* microphone and its open transport, and nothing is pending any more, then
\* SessionState is neither active nor connecting and the stream, the contexts
\* and the transport of that start are released.
C13_TeardownDuringStart ==
  \A k \in DOMAIN cleanups :
    LET s == cleanups[k].gen IN
    /\ cleanups[k].mid
    /\ s = Started(Cur)
    /\ startPc[s] = "done"
    /\ promise[s] = "resolved"
    /\ Settled
    => /\ ~sessionState.isActive
       /\ ~sessionState.isConnecting
       /\ Released(s)

\* C14: when a teardown is called while earlier teardowns are suspended at an
\* await, neither it nor any of those ends by an exception, and once they have
\* all ended and nothing else is pending (no start since), SessionState is
\* neither active nor connecting and every resource of the session is
\* released.
C14_ConcurrentTeardowns ==
  \A k \in DOMAIN cleanups :
    cleanups[k].over # {} =>
      /\ cleanups[k].pc # "failed"
      /\ \A j \in cleanups[k].over : cleanups[j].pc # "failed"
      /\ k = Len(cleanups) /\ cleanups[k].gen = Started(Cur) /\ Settled =>
           /\ ~sessionState.isActive
           /\ ~sessionState.isConnecting
           /\ Released(cleanups[k].gen)

\* Session s has a live microphone stream, a running audio context or a
\* transport that is opening or open.
Holds(s) ==
  \/ stream[s] = "live"
  \/ ctx[s].input = "running"
  \/ ctx[s].output = "running"
  \/ transport[s] \in {"opening", "open"}

\* C15: at most one session holds a stream, a context or a transport; a
\* startSession call is made only when no session holds any and no teardown
\* is suspended; and a teardown called before a session was started neither
\* closes a context of that session nor sets SessionState after that start.
C15_OneSessionAtATime ==
  /\ [](Cardinality({s \in Sessions : Holds(s)}) <= 1)
  /\ [](\A k \in DOMAIN cleanups :
          cleanups[k].pc \in {"awaitInputClose", "awaitOutputClose"} =>
            cleanups[k].on <= cleanups[k].gen)
  /\ [][/\ Started(Cur)' > Started(Cur) =>
             /\ \A s \in Sessions : ~Holds(s)
             /\ \A k \in DOMAIN cleanups : cleanups[k].pc \notin Suspended
        /\ \A k \in DOMAIN cleanups :
             /\ cleanups[k].pc \in Suspended
             /\ cleanups'[k].pc = "done"
             /\ cleanups[k].gen < Started(Cur)
             => sessionState' = sessionState]_vars

C17_NoPlaybackAfterInterrupt ==
  \A x \in scheduled : ~x.cut

\* C18: whenever SessionState is connecting, it later is not (it has become
\* active, error or idle), given that every pending operation settles.
C18_NeverConnectingForever ==
  sessionState.isConnecting ~> ~sessionState.isConnecting

====
